---- MODULE Spec2Model ----
(***************************************************************************)
(* Model of the cohort normalisation pipeline of src/test/download_all.py: *)
(* process_cohort_dir (discovery pass, statistics pass, transform pass,    *)
(* periodic flush, final write) and the loop of main that calls it once    *)
(* per cohort.                                                             *)
(*                                                                         *)
(* safe_download of src/test/download_gdc.py is modelled as well.          *)
(*                                                                         *)
(* The specifications of the module:                                       *)
(*   Spec       the control flow of main / process_cohort_dir over files   *)
(*              described by their columns and row counts;                 *)
(*   SpecStats  the statistics pass and the aggregation of lines 338-365   *)
(*              over concrete per-resource samples of one column;          *)
(*   SpecXform  the per-batch transform of lines 376-397 over concrete     *)
(*              values of one column;                                      *)
(*   SpecDiscover  the discovery pass of lines 318-334, run twice;         *)
(*   SpecSink   the transform loop, the flushes and the final write on     *)
(*              files around the flush threshold;                          *)
(*   SpecDownload  safe_download against a remote file server;             *)
(*   SpecColumns  the column list of a transformed batch, lines 388-397.   *)
(***************************************************************************)
EXTENDS Integers, Sequences, FiniteSets, TLC

\* ---------------------------------------------------------------- bounds
\* main iterates the six entries of cohort_dirs; the model runs MaxCohorts.
MaxCohorts == 2
\* Number of CSV files the glob of a cohort directory returns, at most.
MaxFiles == 2
\* SpecStats: files of the cohort, and rows of the chunk the statistics are
\* taken from (the chunk after the down-sampling of line 348), at most.
MaxStatFiles == 3
MaxSample == 2
\* SpecXform: rows of the batch, at most.
MaxBatchRows == 6

\* ------------------------------------------------------ program constants
\* "> 500000" of the flush test.
FLUSH_ROWS == 500000
\* Default of the chunk_rows parameter.
DEFAULT_CHUNK_ROWS == 100000
\* "> 2.0" of the significance flag.
SIG_Z == 2
\* int(time.time()) truncates the clock to seconds; the model's clock counts
\* half seconds, so two different instants can share a second.
TicksPerSecond == 2

\* Column names of the CSV files (numeric_cols is kept sorted by ColRank,
\* the lexicographic order of these names).
AllCols == {"a", "b"}

ColRank(c) == IF c = "a" THEN 1 ELSE 2

\* Row counts a file may have, and the values of chunk_rows callers pass.
RowChoices == {DEFAULT_CHUNK_ROWS, FLUSH_ROWS + DEFAULT_CHUNK_ROWS}

ChunkRowsChoices == {DEFAULT_CHUNK_ROWS, FLUSH_ROWS + DEFAULT_CHUNK_ROWS}

\* A CSV file: the columns of its header, the columns pandas infers a numeric
\* dtype for, and its number of data rows.
FileKinds ==
  { [cols |-> c, numeric |-> n, nrows |-> r] :
      c \in SUBSET AllCols, n \in SUBSET AllCols, r \in RowChoices }

\* The files of the model: a header is not empty, and of the two columns
\* only "b" occurs as a text column.
Files ==
  { f \in FileKinds :
      f.numeric \subseteq f.cols /\ f.cols # {} /\ (f.cols \ f.numeric) \subseteq {"b"} }

\* The lists list(cohort_dir.glob("*.csv")) can return.
FileLists == UNION { [1..n -> Files] : n \in 0..MaxFiles }

VARIABLES
  pc,               \* position in main / process_cohort_dir
  cohort,           \* index of the cohort of main's for loop
  called,           \* cohorts process_cohort_dir has been called for
  result,           \* outcome of the last call: "none", "path", "raised"
  csv_files,        \* csv_files of the current call
  chunk_rows,       \* chunk_rows of the current call
  fi, bi,           \* file and batch the current pass is at
  numeric_cols,     \* numeric_cols (a set during discovery, then sorted)
  attempted,        \* files each pass has started to read
  transformed,      \* batches appended to processed_chunks in this call
  failed,           \* batches whose read or transform raised
  processed_chunks, \* the buffer of transformed batches
  written,          \* artifacts written by this call: name -> batches
  now,              \* clock, in ticks since the call started
  writeFailed,      \* a to_parquet of this call has raised
  st_pc,            \* position in the statistics pass
  st_n,             \* number of files of the cohort
  st_fi,            \* file the statistics pass is at
  st_chunk,         \* column c of the chunk sampled from the last file
  st_ok,            \* the last file could be opened and read
  st_others,        \* the other discovered columns in the last file
  medians_accum,    \* medians_accum[c], in quarters
  q1_accum,         \* q1_accum[c], in quarters
  q3_accum,         \* q3_accum[c], in quarters
  col_medians,      \* col_medians[c], in eighths
  col_iqr,          \* col_iqr[c], in eighths
  x_pc,             \* position in the transform of one batch
  x_chunk,          \* column c of the batch read from the file
  x_med,            \* col_medians[c], in eighths
  x_iqr,            \* col_iqr[c], in eighths
  x_out,            \* the rows appended to processed_chunks
  d_pc,             \* position in the two discovery passes
  d_files,          \* the CSV files of the cohort directory
  d_order,          \* order in which the current pass reads the files
  d_i,              \* position of the current pass in d_order
  d_numeric_cols,   \* numeric_cols of the current pass (a set)
  d_first,          \* sorted numeric_cols of the first pass
  d_second,         \* sorted numeric_cols of the second pass
  dl_pc,            \* position in safe_download
  retries,          \* retries
  max_retries,      \* max_retries
  disk_bytes,       \* size of save_path (0 when it does not exist)
  start_bytes,      \* size of save_path when safe_download was called
  remote_bytes,     \* size of the remote file
  honours_range,    \* the server honours Range requests
  attempts,         \* iterations of the while loop started so far
  last,             \* what the last iteration of the loop did
  returned,         \* value safe_download returned: "none", "True", "False"
  k_pc,             \* position in the column selection of one batch
  k_columns,        \* chunk.columns, in the order of the file
  k_numeric_cols,   \* numeric_cols
  k_keep_cols       \* keep_cols of line 396

runVars ==
  << pc, cohort, called, result, csv_files, chunk_rows, fi, bi,
     numeric_cols, attempted, transformed, failed, processed_chunks, written,
     now, writeFailed >>

statsVars ==
  << st_pc, st_n, st_fi, st_chunk, st_ok, st_others, medians_accum, q1_accum, q3_accum,
     col_medians, col_iqr >>

xformVars == << x_pc, x_chunk, x_med, x_iqr, x_out >>

discVars ==
  << d_pc, d_files, d_order, d_i, d_numeric_cols, d_first, d_second >>

dlVars ==
  << dl_pc, retries, max_retries, disk_bytes, start_bytes, remote_bytes,
     honours_range, attempts, last, returned >>

colVars == << k_pc, k_columns, k_numeric_cols, k_keep_cols >>

vars == << runVars, statsVars, xformVars, discVars, dlVars, colVars >>

\* ------------------------------------------------------------- helpers
RECURSIVE SumSeq(_)
SumSeq(s) == IF s = <<>> THEN 0 ELSE Head(s) + SumSeq(Tail(s))

\* sorted(list(numeric_cols)): the columns of S in lexicographic order.
SortCols(S) ==
  CHOOSE s \in [1..Cardinality(S) -> S] :
    \A i, j \in 1..Cardinality(S) : i < j => ColRank(s[i]) < ColRank(s[j])

ColSet(s) == { s[i] : i \in DOMAIN s }

\* Lengths of the chunks pd.read_csv(f, chunksize=chunk) yields for a file
\* of n rows: full chunks, then the rest.
RECURSIVE ChunkLens(_, _)
ChunkLens(n, chunk) ==
  IF n <= 0 THEN <<>>
  ELSE IF n <= chunk THEN <<n>>
  ELSE <<chunk>> \o ChunkLens(n - chunk, chunk)

NumBatches(f) == Len(ChunkLens(csv_files[f].nrows, chunk_rows))

BatchLen(f, b) == ChunkLens(csv_files[f].nrows, chunk_rows)[b]

\* Every batch the transform pass would read from the files of the call.
AllBatches ==
  UNION { { <<f, b>> : b \in 1..NumBatches(f) } : f \in DOMAIN csv_files }

\* sum(len(df) for df in processed_chunks)
BufferedRows(chunks) == SumSeq([i \in DOMAIN chunks |-> BatchLen(chunks[i][1], chunks[i][2])])

\* Artifact names: f"{cohort_name}_part_{int(time.time())}.parquet" and
\* f"{cohort_name}_processed.parquet".
tmp_path(t) == [kind |-> "part", marker |-> t \div TicksPerSecond]

out_path == [kind |-> "processed", marker |-> 0]

\* to_parquet(path): creates or replaces the file at path.
ToParquet(w, path, chunks) == (path :> chunks) @@ w

NoArtifacts == [p \in {} |-> <<>>]

NoAttempts == [discover |-> {}, stats |-> {}, transform |-> {}]

\* chunk[numeric_cols] and the arithmetic on it succeed when every discovered
\* column is a numeric column of the file (a missing column raises KeyError,
\* a text column raises TypeError in the scaling).
CanTransform(f, cols) == ColSet(cols) \subseteq f.numeric

\* read_csv(f, usecols=numeric_cols) raises when a column is not in the file.
CanSample(f, cols) == ColSet(cols) \subseteq f.cols

\* The batch after <<f, b>> in "for f in csv_files: for chunk in read_csv".
NextBatch(f, b) == IF b < NumBatches(f) THEN <<f, b + 1>> ELSE <<f + 1, 1>>

\* Discovery and statistics passes: the try is inside "for f in csv_files"
\* (lines 320-329, 342-357), so after an exception the next file follows.
AfterReadError_abort(f) == Len(csv_files) + 1

AfterReadError(f) == f + 1

\* An exception in the body of the transform loop leaves the inner loop: the
\* except of line 405 is outside "for chunk in ...", so the next file follows.
AfterException(f, b) == <<f + 1, 1>>

\* Where an exception raised at a position of process_cohort_dir lands: the
\* try of lines 375-406 covers the transform and the intermediate flush, the
\* final write of lines 409-412 is outside any try.
CatchTarget_final_in_try(at) == "transform"

CatchTarget(at) == IF at \in {"transform", "flush"} THEN "transform" ELSE "main"

\* Line 399: the buffer is flushed once it holds more than 500000 rows.
MustFlush_atleast(rows) == rows >= FLUSH_ROWS

MustFlush(rows) == rows > FLUSH_ROWS

\* main, lines 470-474: the call is inside try/except Exception, so the loop
\* goes on with the next cohort whatever the call did.
NextCohort(res, c) == c + 1

\* Lines 331-334: with no numeric column the call returns None.
AfterDiscovery_noreturn(cols) == "stats"

AfterDiscovery(cols) == IF cols = <<>> THEN "return" ELSE "stats"

\* ------------------------------------------------ idle parts of the state
StatsIdle ==
  /\ st_pc = "idle" /\ st_n = 0 /\ st_fi = 0 /\ st_chunk = <<>> /\ st_ok = FALSE
  /\ st_others = "none"
  /\ medians_accum = <<>> /\ q1_accum = <<>> /\ q3_accum = <<>>
  /\ col_medians = 0 /\ col_iqr = 0

XformIdle ==
  /\ x_pc = "idle" /\ x_chunk = <<>> /\ x_med = 0 /\ x_iqr = 0 /\ x_out = <<>>

ColIdle ==
  /\ k_pc = "idle" /\ k_columns = <<>> /\ k_numeric_cols = <<>>
  /\ k_keep_cols = <<>>

DiscIdle ==
  /\ d_pc = "idle" /\ d_files = <<>> /\ d_order = <<>> /\ d_i = 0
  /\ d_numeric_cols = {} /\ d_first = <<>> /\ d_second = <<>>

\* The record of an iteration of safe_download's loop: the answer to the
\* HEAD request and the total_size read from it, the outcome of the GET
\* request, the offset the GET asked for, the bytes written to save_path.
NoAttempt ==
  [head |-> "none", total_size |-> 0, get |-> "none", from |-> 0, wrote |-> 0]

DlIdle ==
  /\ dl_pc = "idle" /\ retries = 0 /\ max_retries = 0 /\ disk_bytes = 0
  /\ start_bytes = 0 /\ remote_bytes = 0 /\ honours_range = FALSE
  /\ attempts = 0 /\ last = NoAttempt /\ returned = "none"

RunIdle ==
  /\ pc = "idle" /\ cohort = 0 /\ called = {} /\ result = "none"
  /\ csv_files = <<>> /\ chunk_rows = 0 /\ fi = 0 /\ bi = 0
  /\ numeric_cols = <<>> /\ attempted = NoAttempts /\ transformed = {}
  /\ failed = {} /\ processed_chunks = <<>> /\ written = NoArtifacts
  /\ now = 0 /\ writeFailed = FALSE

\* ------------------------------------------------------------------ Spec
Init ==
  /\ pc = "main" /\ cohort = 1 /\ called = {} /\ result = "none"
  /\ csv_files = <<>> /\ chunk_rows = DEFAULT_CHUNK_ROWS /\ fi = 0 /\ bi = 0
  /\ numeric_cols = <<>> /\ attempted = NoAttempts /\ transformed = {}
  /\ failed = {} /\ processed_chunks = <<>> /\ written = NoArtifacts
  /\ now = 0 /\ writeFailed = FALSE
  /\ StatsIdle /\ XformIdle /\ DiscIdle /\ DlIdle /\ ColIdle

\* return / raise of process_cohort_dir, back in main's loop.
Return(res) ==
  /\ pc' = "main"
  /\ result' = res
  /\ cohort' = NextCohort(res, cohort)

\* main lines 470-472: the for loop takes the next cohort and calls
\* process_cohort_dir, whose locals start afresh.
MainLoop ==
  /\ pc = "main" /\ cohort <= MaxCohorts
  /\ pc' = "call"
  /\ called' = called \cup {cohort}
  /\ csv_files' = <<>> /\ chunk_rows' = DEFAULT_CHUNK_ROWS
  /\ numeric_cols' = <<>> /\ attempted' = NoAttempts /\ transformed' = {}
  /\ failed' = {} /\ processed_chunks' = <<>> /\ written' = NoArtifacts
  /\ now' = 0 /\ writeFailed' = FALSE /\ bi' = 1 /\ fi' = 1
  /\ UNCHANGED <<cohort, result>>
  /\ UNCHANGED <<statsVars, xformVars, discVars, dlVars, colVars>>

\* process_cohort_dir lines 306-317: mkdir may raise, the glob returns the
\* cohort's files, without files the call returns None.
Call ==
  /\ pc = "call"
  /\ \E mkdir_ok \in BOOLEAN, fs \in FileLists, cr \in ChunkRowsChoices :
       IF ~mkdir_ok
       THEN /\ fs = <<>> /\ cr = DEFAULT_CHUNK_ROWS
            /\ UNCHANGED <<csv_files, chunk_rows>>
            /\ Return("raised")
       ELSE /\ csv_files' = fs /\ chunk_rows' = cr
            /\ IF fs = <<>>
               THEN Return("none")
               ELSE /\ pc' = "discover"
                    /\ UNCHANGED <<cohort, result>>
  /\ UNCHANGED <<called, fi, bi, numeric_cols, attempted, transformed, failed,
                 processed_chunks, written, now, writeFailed>>
  /\ UNCHANGED <<statsVars, xformVars, discVars, dlVars, colVars>>

\* Lines 320-329: one file of the discovery pass; the read may raise.
Discover ==
  /\ pc = "discover" /\ fi <= Len(csv_files)
  /\ attempted' = [attempted EXCEPT !.discover = @ \cup {fi}]
  /\ \E read_ok \in BOOLEAN :
       IF read_ok
       THEN /\ numeric_cols' = SortCols(ColSet(numeric_cols) \cup csv_files[fi].numeric)
            /\ fi' = fi + 1
       ELSE /\ numeric_cols' = numeric_cols
            /\ fi' = AfterReadError(fi)
  /\ UNCHANGED <<pc, cohort, called, result, csv_files, chunk_rows, bi,
                 transformed, failed, processed_chunks, written, now, writeFailed>>
  /\ UNCHANGED <<statsVars, xformVars, discVars, dlVars, colVars>>

\* Lines 331-340: the sort, the early return, the empty accumulators.
DiscoverEnd ==
  /\ pc = "discover" /\ fi > Len(csv_files)
  /\ IF AfterDiscovery(numeric_cols) = "return"
     THEN Return("none") /\ UNCHANGED fi
     ELSE pc' = "stats" /\ fi' = 1 /\ UNCHANGED <<cohort, result>>
  /\ UNCHANGED <<called, csv_files, chunk_rows, bi, numeric_cols, attempted,
                 transformed, failed, processed_chunks, written, now, writeFailed>>
  /\ UNCHANGED <<statsVars, xformVars, discVars, dlVars, colVars>>

\* Lines 342-357: one file of the statistics pass; the read raises when a
\* discovered column is missing from the file, and may raise otherwise (the
\* sampled values are the subject of SpecStats).
StatsFile ==
  /\ pc = "stats" /\ fi <= Len(csv_files)
  /\ attempted' = [attempted EXCEPT !.stats = @ \cup {fi}]
  /\ \E io_ok \in BOOLEAN :
       IF io_ok /\ CanSample(csv_files[fi], numeric_cols)
       THEN fi' = fi + 1
       ELSE fi' = AfterReadError(fi)
  /\ UNCHANGED <<pc, cohort, called, result, csv_files, chunk_rows, bi,
                 numeric_cols, transformed, failed, processed_chunks, written,
                 now, writeFailed>>
  /\ UNCHANGED <<statsVars, xformVars, discVars, dlVars, colVars>>

\* Lines 359-372: the aggregation, then the transform pass starts.
StatsEnd ==
  /\ pc = "stats" /\ fi > Len(csv_files)
  /\ pc' = "transform" /\ fi' = 1 /\ bi' = 1 /\ processed_chunks' = <<>>
  /\ UNCHANGED <<cohort, called, result, csv_files, chunk_rows,
                 numeric_cols, attempted, transformed, failed, written, now,
                 writeFailed>>
  /\ UNCHANGED <<statsVars, xformVars, discVars, dlVars, colVars>>

\* Lines 376-399: one batch of the transform pass, up to the flush test.
TransformBatch ==
  /\ pc = "transform" /\ fi <= Len(csv_files)
  /\ attempted' = [attempted EXCEPT !.transform = @ \cup {fi}]
  /\ \E io_ok \in BOOLEAN :
       IF io_ok /\ CanTransform(csv_files[fi], numeric_cols)
       THEN /\ transformed' = transformed \cup {<<fi, bi>>}
            /\ processed_chunks' = Append(processed_chunks, <<fi, bi>>)
            /\ IF MustFlush(BufferedRows(processed_chunks'))
               THEN pc' = "flush" /\ UNCHANGED <<fi, bi>>
               ELSE /\ pc' = "transform"
                    /\ fi' = NextBatch(fi, bi)[1] /\ bi' = NextBatch(fi, bi)[2]
            /\ UNCHANGED failed
       ELSE /\ failed' = failed \cup {<<fi, bi>>}
            /\ pc' = CatchTarget("transform")
            /\ fi' = AfterException(fi, bi)[1] /\ bi' = AfterException(fi, bi)[2]
            /\ UNCHANGED <<transformed, processed_chunks>>
  /\ UNCHANGED <<cohort, called, result, csv_files, chunk_rows,
                 numeric_cols, written, now, writeFailed>>
  /\ UNCHANGED <<statsVars, xformVars, discVars, dlVars, colVars>>

\* Lines 399-404: the intermediate flush, named after the clock's second.
Flush ==
  /\ pc = "flush"
  /\ \E t \in (now + 1)..(now + TicksPerSecond), write_ok \in BOOLEAN :
       /\ now' = t
       /\ IF write_ok
          THEN /\ written' = ToParquet(written, tmp_path(t), processed_chunks)
               /\ processed_chunks' = <<>>
               /\ pc' = "transform"
               /\ fi' = NextBatch(fi, bi)[1] /\ bi' = NextBatch(fi, bi)[2]
               /\ UNCHANGED writeFailed
          ELSE /\ writeFailed' = TRUE
               /\ pc' = CatchTarget("flush")
               /\ fi' = AfterException(fi, bi)[1] /\ bi' = AfterException(fi, bi)[2]
               /\ UNCHANGED <<written, processed_chunks>>
  /\ UNCHANGED <<cohort, called, result, csv_files, chunk_rows,
                 numeric_cols, attempted, transformed, failed>>
  /\ UNCHANGED <<statsVars, xformVars, discVars, dlVars, colVars>>

\* The for loop of line 373 is exhausted.
TransformEnd ==
  /\ pc = "transform" /\ fi > Len(csv_files)
  /\ pc' = "final"
  /\ UNCHANGED <<cohort, called, result, csv_files, chunk_rows, fi, bi,
                 numeric_cols, attempted, transformed, failed, processed_chunks,
                 written, now, writeFailed>>
  /\ UNCHANGED <<statsVars, xformVars, discVars, dlVars, colVars>>

\* Lines 408-416: the final write and the return of out_path.
Final ==
  /\ pc = "final"
  /\ IF processed_chunks # <<>>
     THEN \E write_ok \in BOOLEAN :
            IF write_ok
            THEN /\ written' = ToParquet(written, out_path, processed_chunks)
                 /\ Return("path")
                 /\ UNCHANGED writeFailed
            ELSE /\ writeFailed' = TRUE
                 /\ UNCHANGED written
                 /\ IF CatchTarget("final") = "main"
                    THEN Return("raised")
                    ELSE pc' = CatchTarget("final") /\ UNCHANGED <<cohort, result>>
     ELSE Return("path") /\ UNCHANGED <<written, writeFailed>>
  /\ UNCHANGED <<called, csv_files, chunk_rows, fi, bi, numeric_cols, attempted,
                 transformed, failed, processed_chunks, now>>
  /\ UNCHANGED <<statsVars, xformVars, discVars, dlVars, colVars>>

\* main lines 476-478: the loop over the cohorts is over.
MainEnd ==
  /\ pc = "main" /\ cohort > MaxCohorts
  /\ pc' = "exit"
  /\ UNCHANGED <<cohort, called, result, csv_files, chunk_rows, fi, bi,
                 numeric_cols, attempted, transformed, failed, processed_chunks,
                 written, now, writeFailed>>
  /\ UNCHANGED <<statsVars, xformVars, discVars, dlVars, colVars>>

Next ==
  \/ MainLoop
  \/ Call
  \/ Discover
  \/ DiscoverEnd
  \/ StatsFile
  \/ StatsEnd
  \/ TransformBatch
  \/ Flush
  \/ TransformEnd
  \/ Final
  \/ MainEnd

Spec == Init /\ [][Next]_vars

\* ------------------------------------------------------- claims on Spec
\* The call of process_cohort_dir has returned its path.
ReturnedPath == pc \in {"main", "exit"} /\ result = "path"

\* How often a batch occurs in the artifacts the call has written.
Occurrences(id) ==
  Cardinality({ pi \in { <<p, i>> : p \in DOMAIN written, i \in 1..(MaxFiles * 8) } :
                  pi[2] <= Len(written[pi[1]]) /\ written[pi[1]][pi[2]] = id })

ArtifactRows ==
  LET RECURSIVE Total(_)
      Total(P) == IF P = {} THEN 0
                  ELSE LET p == CHOOSE q \in P : TRUE
                       IN BufferedRows(written[p]) + Total(P \ {p})
  IN Total(DOMAIN written)

TransformedRows ==
  LET RECURSIVE Total(_)
      Total(B) == IF B = {} THEN 0
                  ELSE LET id == CHOOSE q \in B : TRUE
                       IN BatchLen(id[1], id[2]) + Total(B \ {id})
  IN Total(transformed)

\* C1: when a run of process_cohort_dir has returned, every successfully
\* transformed batch is in exactly one written artifact, once, and the rows
\* of the artifacts sum to the rows of the transformed batches.
C1_NoRowLostOrDuplicated ==
  ReturnedPath =>
    /\ \A id \in transformed : Occurrences(id) = 1
    /\ ArtifactRows = TransformedRows

\* C2: when the transform pass is over, every batch of every file was
\* attempted (it was transformed or it failed itself): a failing batch made
\* the pass skip no other batch.
C2_OnlyFailedBatchSkipped ==
  pc = "final" => \A id \in AllBatches : id \in transformed \cup failed

\* C3: once a write of an artifact has failed, the run is over and the error
\* has reached the caller: no step of the run follows the failure.
C3_WriteFailureIsFatal ==
  writeFailed => (pc \in {"main", "exit"} /\ result = "raised")

\* C4: each pass has gone through every file of the cohort when it ends,
\* whatever reads failed in it, and main has called process_cohort_dir for
\* every cohort when it ends, whatever calls raised.
C4_FailuresIsolated ==
  /\ pc \in {"stats", "transform", "flush", "final"} =>
        attempted.discover = DOMAIN csv_files
  /\ (pc = "main" /\ result # "raised" /\ csv_files # <<>>) =>
        attempted.discover = DOMAIN csv_files
  /\ pc \in {"transform", "flush", "final"} => attempted.stats = DOMAIN csv_files
  /\ pc = "final" => attempted.transform = DOMAIN csv_files
  /\ pc = "exit" => called = 1..MaxCohorts

\* The second cohort's transform pass is over after the first cohort's call
\* raised; in it the first file failed in all three passes (its sample read
\* raised, it lacks a discovered column) and the second file was transformed.
C4_Witness ==
  /\ pc = "final" /\ cohort = 2 /\ result = "raised" /\ Len(csv_files) = 2
  /\ \E c \in csv_files[1].numeric : c \notin ColSet(numeric_cols)
  /\ ~CanSample(csv_files[1], numeric_cols)
  /\ <<1, 1>> \in failed
  /\ <<2, 1>> \in transformed

InRun == pc \in {"discover", "stats", "transform", "flush", "final"}

\* DISCOVER < ESTIMATE < TRANSFORM < FLUSH < FINALIZE < returned.
StrictRank(p) ==
  CASE p = "discover" -> 1 [] p = "stats" -> 2 [] p = "transform" -> 3
    [] p = "flush" -> 4 [] p = "final" -> 5 [] OTHER -> 6

\* The same order with TRANSFORM and FLUSH as one stage.
LoopRank(p) == IF p = "flush" THEN 3 ELSE StrictRank(p)

\* C5 as claimed: no step of a run leads from a phase to an earlier one,
\* FLUSH to TRANSFORM included.
C5_NeverBack == [][InRun => StrictRank(pc') >= StrictRank(pc)]_vars

\* C5 amended: no step of a run leads from a phase to an earlier one, except
\* that a periodic FLUSH leads back to TRANSFORM; from FINALIZE the run only
\* returns.
C5_NeverBackButFlush == [][InRun => LoopRank(pc') >= LoopRank(pc)]_vars

\* The run is transforming again after an intermediate flush was written.
C5_Witness ==
  /\ pc = "transform" /\ fi <= Len(csv_files)
  /\ \E p \in DOMAIN written : p.kind = "part"

\* C6: a run whose discovery found no numeric column never enters the
\* statistics or transform pass, writes nothing and returns None.
C6_NoNumericEndsRun ==
  /\ pc \in {"stats", "transform", "flush", "final"} => numeric_cols # <<>>
  /\ (pc \in {"main", "exit"} /\ attempted.discover # {} /\ numeric_cols = <<>>) =>
        /\ attempted.stats = {} /\ attempted.transform = {}
        /\ transformed = {} /\ failed = {}
        /\ DOMAIN written = {}
        /\ result = "none"

\* Discovery went through two files, found no numeric column and returned.
C6_Witness ==
  /\ pc = "main" /\ Len(csv_files) = 2 /\ attempted.discover = {1, 2}
  /\ numeric_cols = <<>> /\ result = "none"

\* ------------------------------------------------------------- SpecStats
\* The statistics pass for one discovered column c. Values are integers; a
\* per-file median or quartile is held in quarters (4 times its value) and a
\* global value in eighths, so that the interpolation of quantile() and the
\* averaging of np.median stay exact.

\* NaN, the missing value dropna() removes.
NA == -1

\* Values a cell of column c may hold.
SampleValues == {0, 1}

\* The chunks a file may yield for column c.
SampleChunks == UNION { [1..n -> SampleValues \cup {NA}] : n \in 1..MaxSample }

\* chunk[c].dropna()
Dropna(col) == SelectSeq(col, LAMBDA v : v # NA)

RECURSIVE Insert(_, _)
Insert(v, s) ==
  IF s = <<>> THEN <<v>>
  ELSE IF v <= Head(s) THEN <<v>> \o s
  ELSE <<Head(s)>> \o Insert(v, Tail(s))

\* The ascending order quantile() and np.median work on.
RECURSIVE Sorted(_)
Sorted(s) == IF s = <<>> THEN <<>> ELSE Insert(Head(s), Sorted(Tail(s)))

\* Series.quantile(k/4) with linear interpolation, in quarters: position
\* (n-1)*k/4 of the sorted values, interpolated between its neighbours.
Quantile4(col, k) ==
  LET a == Sorted(col)
      pos == (Len(a) - 1) * k
      lo == (pos \div 4) + 1
      r == pos % 4
  IN IF r = 0 THEN 4 * a[lo] ELSE 4 * a[lo] + r * (a[lo + 1] - a[lo])

\* col.median(), col.quantile(0.25), col.quantile(0.75) of lines 352-354.
SampleMedian(col) == Quantile4(col, 2)

SampleQ1(col) == Quantile4(col, 1)

SampleQ3_asQ1(col) == Quantile4(col, 1)

SampleQ3(col) == Quantile4(col, 3)

\* np.median of a non-empty list, doubled: the middle element, or the mean
\* of the two middle elements.
NpMedian2_lower(xs) == 2 * Sorted(xs)[(Len(xs) + 1) \div 2]

NpMedian2(xs) ==
  LET a == Sorted(xs)
  IN a[(Len(a) + 1) \div 2] + a[(Len(a) + 2) \div 2]

\* Lines 360-362: "np.median(acc) if acc else 0.0", in eighths.
MedianOrZero(acc) == IF acc # <<>> THEN NpMedian2(acc) ELSE 0

\* Line 363: "q3 - q1 if (q3 - q1) != 0 else 1.0", in eighths.
IqrOrOne_nofallback(q1, q3) == q3 - q1

IqrOrOne(q1, q3) == IF (q3 - q1) # 0 THEN q3 - q1 ELSE 8

\* What the file holds for the discovered columns other than c: all of them
\* as numeric columns, one of them not at all, or one of them as a text
\* column that numeric_cols lists before c or after c.
OtherColumns == {"numeric", "missing", "text_before", "text_after"}

\* Whether lines 345-354 get to column c of the file: usecols=numeric_cols
\* raises when a discovered column is missing from the file, and the median
\* of a text column raises when the loop of line 349 comes to it.
ReachesColumn(others) == others \notin {"missing", "text_before"}

InitStats ==
  /\ RunIdle /\ XformIdle /\ DiscIdle /\ DlIdle /\ ColIdle
  /\ st_pc = "sample" /\ st_n \in 1..MaxStatFiles /\ st_fi = 1
  /\ st_chunk = <<>> /\ st_ok = FALSE /\ st_others = "none"
  /\ medians_accum = <<>> /\ q1_accum = <<>> /\ q3_accum = <<>>
  /\ col_medians = 0 /\ col_iqr = 0

\* Lines 342-357 for one file: the first chunk is read (the read may raise)
\* and, when the loop over numeric_cols reaches column c and c has a value
\* left after dropna, its median and quartiles are appended to the
\* accumulators.
StatsSample ==
  /\ st_pc = "sample" /\ st_fi <= st_n
  /\ \E io_ok \in BOOLEAN, chunk \in SampleChunks, others \in OtherColumns :
       /\ st_ok' = io_ok
       /\ st_chunk' = chunk
       /\ st_others' = others
       /\ LET col == Dropna(chunk)
          IN IF io_ok /\ ReachesColumn(others) /\ col # <<>>
             THEN /\ medians_accum' = Append(medians_accum, SampleMedian(col))
                  /\ q1_accum' = Append(q1_accum, SampleQ1(col))
                  /\ q3_accum' = Append(q3_accum, SampleQ3(col))
             ELSE UNCHANGED <<medians_accum, q1_accum, q3_accum>>
  /\ st_fi' = st_fi + 1
  /\ UNCHANGED <<st_pc, st_n, col_medians, col_iqr>>
  /\ UNCHANGED <<runVars, xformVars, discVars, dlVars, colVars>>

\* Lines 359-365 for column c.
StatsAggregate ==
  /\ st_pc = "sample" /\ st_fi > st_n
  /\ col_medians' = MedianOrZero(medians_accum)
  /\ col_iqr' = IqrOrOne(MedianOrZero(q1_accum), MedianOrZero(q3_accum))
  /\ st_pc' = "done"
  /\ UNCHANGED <<st_n, st_fi, st_chunk, st_ok, st_others, medians_accum,
                 q1_accum, q3_accum>>
  /\ UNCHANGED <<runVars, xformVars, discVars, dlVars, colVars>>

NextStats ==
  \/ StatsSample
  \/ StatsAggregate

SpecStats == InitStats /\ [][NextStats]_vars

\* ---------------------------------------------------- claims on SpecStats
\* The k-th smallest element of a list, by counting.
Kth(xs, k) ==
  CHOOSE v \in { xs[i] : i \in DOMAIN xs } :
    /\ Cardinality({ i \in DOMAIN xs : xs[i] < v }) < k
    /\ k <= Cardinality({ i \in DOMAIN xs : xs[i] <= v })

\* Twice the median of a non-empty list.
TwiceMedian(xs) == Kth(xs, (Len(xs) + 1) \div 2) + Kth(xs, (Len(xs) + 2) \div 2)

\* Four times the k-th quartile of the values of a chunk that are not missing.
Quartile(chunk, k) ==
  LET vals == { i \in DOMAIN chunk : chunk[i] # NA }
      RankOf(i) == Cardinality({ j \in vals : chunk[j] < chunk[i] \/ (chunk[j] = chunk[i] /\ j <= i) })
      At(m) == chunk[CHOOSE i \in vals : RankOf(i) = m]
      pos == (Cardinality(vals) - 1) * k
      lo == (pos \div 4) + 1
  IN IF pos % 4 = 0 THEN 4 * At(lo)
     ELSE (4 - (pos % 4)) * At(lo) + (pos % 4) * At(lo + 1)

\* The last file sampled was readable, its sampling got to the column and
\* the column held a value.
LastContributed ==
  /\ st_fi > 1 /\ st_ok /\ ReachesColumn(st_others)
  /\ \E i \in DOMAIN st_chunk : st_chunk[i] # NA

\* Per-resource differences q3 - q1, in quarters.
QuartileDiffs == [i \in DOMAIN q1_accum |-> q3_accum[i] - q1_accum[i]]

\* The difference of the aggregated quartiles, in eighths.
AggregatedDiff ==
  IF q1_accum = <<>> THEN 0 ELSE TwiceMedian(q3_accum) - TwiceMedian(q1_accum)

\* C7: the spread of a column is strictly positive whatever the files
\* held, and it is 1 when the aggregated quartile difference is zero.
C7_SpreadPositive ==
  st_pc = "done" => (col_iqr > 0 /\ (AggregatedDiff = 0 => col_iqr = 8))

\* Files contributed, their aggregated quartiles coincide, the spread is 1.
C7_Witness ==
  st_pc = "done" /\ q1_accum # <<>> /\ AggregatedDiff = 0 /\ col_iqr = 8

\* C8 as claimed: the spread is the median of the per-resource differences
\* q3 - q1 (1 when that median is zero).
C8_SpreadIsMedianOfDiffs ==
  (st_pc = "done" /\ q1_accum # <<>>) =>
    col_iqr = IF TwiceMedian(QuartileDiffs) = 0 THEN 8 ELSE TwiceMedian(QuartileDiffs)

\* C8 amended: every contributing resource adds its own 25th and 75th
\* percentile, and the spread is the median of the 75th percentiles minus
\* the median of the 25th percentiles (1 when that difference is zero).
C8_SpreadIsDiffOfMedians ==
  /\ Len(q1_accum) = Len(q3_accum)
  /\ LastContributed =>
       /\ q1_accum # <<>> /\ q3_accum # <<>>
       /\ q1_accum[Len(q1_accum)] = Quartile(st_chunk, 1)
       /\ q3_accum[Len(q3_accum)] = Quartile(st_chunk, 3)
  /\ (st_pc = "done" /\ q1_accum # <<>>) =>
       col_iqr = IF AggregatedDiff = 0 THEN 8 ELSE AggregatedDiff

\* Three resources contributed and the median of their differences is not
\* the difference of the medians of their quartiles.
C8_Witness ==
  /\ st_pc = "done" /\ Len(q1_accum) = 3 /\ LastContributed
  /\ TwiceMedian(QuartileDiffs) # AggregatedDiff

\* C9: every contributing resource adds its sample median, the center is
\* the median of these medians, and with no contribution the center is 0
\* and the spread is 1.
C9_CenterIsMedianOfMedians ==
  /\ LastContributed =>
       /\ medians_accum # <<>>
       /\ medians_accum[Len(medians_accum)] = Quartile(st_chunk, 2)
  /\ (st_pc = "done" /\ medians_accum # <<>>) => col_medians = TwiceMedian(medians_accum)
  /\ (st_pc = "done" /\ medians_accum = <<>>) => (col_medians = 0 /\ col_iqr = 8)

\* Two resources with different medians contributed and one did not.
C9_Witness ==
  /\ st_pc = "done" /\ st_n = 3 /\ Len(medians_accum) = 2
  /\ medians_accum[1] # medians_accum[2]
  /\ col_medians = TwiceMedian(medians_accum)

\* ------------------------------------------------------------- SpecXform
\* The transform of one batch for one discovered column c. A scaled value
\* is the fraction num/den with den = col_iqr[c]; a z-score is num/sqrt(den2),
\* or undefined (NaN) when the batch has no variance.

\* Centers and spreads the statistics pass can hand over, in eighths.
CenterChoices == {0, 4, 8}

SpreadChoices == {4, 8}

BatchChunks == UNION { [1..n -> SampleValues \cup {NA}] : n \in 1..MaxBatchRows }

\* Line 381: fillna(col_medians[c]), in eighths.
Fillna(v, med) == IF v = NA THEN med ELSE 8 * v

\* Line 384: (x - col_medians[c]) / col_iqr[c].
RobustScale(x, med, iqr) == [num |-> x - med, den |-> iqr]

\* Line 386: stats.zscore of a column of fractions with the common positive
\* denominator: (x - mean) / std with the population variance; the
\* denominator cancels. Without variance the result is NaN.
ZScore(col) ==
  LET n == Len(col)
      s1 == SumSeq([i \in DOMAIN col |-> col[i].num])
      s2 == SumSeq([i \in DOMAIN col |-> col[i].num * col[i].num])
      v == n * s2 - s1 * s1
  IN [i \in DOMAIN col |->
        IF v = 0 THEN [def |-> FALSE, num |-> 0, den2 |-> 0]
        ELSE [def |-> TRUE, num |-> n * col[i].num - s1, den2 |-> v]]

\* Series.abs()
ZAbs(z) == [z EXCEPT !.num = IF @ < 0 THEN -@ ELSE @]

\* z > t for t >= 0; NaN compares false.
ZGreater(z, t) == z.def /\ z.num > 0 /\ z.num * z.num > t * t * z.den2

\* Line 391: zc.abs() > 2.0
Sig_noabs(z) == ZGreater(z, SIG_Z)

Sig(z) == ZGreater(ZAbs(z), SIG_Z)

\* Lines 378-397 for column c: numeric_chunk is a copy that is filled and
\* scaled, the z-score and the flag are stored in chunk, and the kept columns
\* c, c_z, c_sig are taken from chunk.
TransformChunk(chunk, med, iqr) ==
  LET numeric_chunk == [i \in DOMAIN chunk |-> RobustScale(Fillna(chunk[i], med), med, iqr)]
      z_chunk == ZScore(numeric_chunk)
  IN [i \in DOMAIN chunk |->
        [c |-> chunk[i], c_z |-> z_chunk[i], c_sig |-> Sig(z_chunk[i])]]

InitXform ==
  /\ RunIdle /\ StatsIdle /\ DiscIdle /\ DlIdle /\ ColIdle
  /\ x_pc = "batch"
  /\ x_chunk \in BatchChunks
  /\ x_med \in CenterChoices
  /\ x_iqr \in SpreadChoices
  /\ x_out = <<>>

\* Lines 376-397: one batch is transformed and appended.
XformBatch ==
  /\ x_pc = "batch"
  /\ x_out' = TransformChunk(x_chunk, x_med, x_iqr)
  /\ x_pc' = "done"
  /\ UNCHANGED <<x_chunk, x_med, x_iqr>>
  /\ UNCHANGED <<runVars, statsVars, discVars, dlVars, colVars>>

NextXform == XformBatch

SpecXform == InitXform /\ [][NextXform]_vars

\* ---------------------------------------------------- claims on SpecXform
\* The z-scores of the emitted rows are those of one batch: all undefined,
\* or all defined with mean zero and variance one over the batch.
BatchLocalZ ==
  \/ \A i \in DOMAIN x_out : ~x_out[i].c_z.def
  \/ /\ \A i \in DOMAIN x_out : x_out[i].c_z.def /\ x_out[i].c_z.den2 > 0
     /\ SumSeq([i \in DOMAIN x_out |-> x_out[i].c_z.num]) = 0
     /\ \A i \in DOMAIN x_out :
          SumSeq([j \in DOMAIN x_out |-> x_out[j].c_z.num * x_out[j].c_z.num])
            = Len(x_out) * x_out[i].c_z.den2

\* |z| > 2 for z = num / sqrt(den2): z * z > 4.
BeyondTwo(z) == z.def /\ z.num * z.num > 4 * z.den2

\* C10: in every emitted row c_sig is true exactly when the row's z-score
\* within its batch is defined and beyond 2.0 in absolute value.
C10_SigIffBeyondTwo ==
  x_pc = "done" =>
    /\ Len(x_out) = Len(x_chunk)
    /\ BatchLocalZ
    /\ \A i \in DOMAIN x_out : x_out[i].c_sig = BeyondTwo(x_out[i].c_z)

\* A batch with a flagged row below the batch mean and an unflagged row.
C10_Witness ==
  /\ x_pc = "done"
  /\ \E i, j \in DOMAIN x_out :
       /\ x_out[i].c_sig /\ x_out[i].c_z.num < 0
       /\ ~x_out[j].c_sig /\ x_out[j].c_z.def

\* ========================================================== SpecDiscover
\* The discovery pass of lines 318-334 over files whose column names are
\* compared as Python compares strings, run twice over the same directory
\* with the files in two orders (glob returns them in arbitrary order).

\* Files of the directory, at most.
MaxDiscFiles == 2

\* Column names as sequences of code points: "a", "ab", "b".
DiscNames == { <<1>>, <<1, 2>>, <<2>> }

\* A file of the directory: head are the columns pandas gives a numeric dtype
\* when it reads the first 1000 rows, whole those it would give one reading
\* every row (column "a" may hold text after row 1000), readable whether
\* read_csv succeeds on it.
DiscFiles ==
  { [head |-> h, whole |-> w, readable |-> r] :
      h \in SUBSET DiscNames, w \in SUBSET DiscNames, r \in BOOLEAN }

DiscFileChoices ==
  { f \in DiscFiles : f.whole \in {f.head, f.head \ {<<1>>}} }

DiscFileLists == UNION { [1..n -> DiscFileChoices] : n \in 1..MaxDiscFiles }

\* The orders in which glob may list n files.
GlobOrders(n) ==
  { p \in [1..n -> 1..n] : \A i, j \in 1..n : p[i] = p[j] => i = j }

\* str.__lt__: the first differing code point decides, a proper prefix is
\* smaller.
RECURSIVE StrLess(_, _)
StrLess(s, t) ==
  IF t = <<>> THEN FALSE
  ELSE IF s = <<>> THEN TRUE
  ELSE IF Head(s) # Head(t) THEN Head(s) < Head(t)
  ELSE StrLess(Tail(s), Tail(t))

\* sorted(list(numeric_cols)) of line 331.
RECURSIVE SortedNames(_)
SortedNames(S) ==
  IF S = {} THEN <<>>
  ELSE LET m == CHOOSE x \in S : \A y \in S \ {x} : StrLess(x, y)
       IN  <<m>> \o SortedNames(S \ {m})

\* Line 322: pd.read_csv(f, nrows=1000); the numeric columns of the sample.
SampleNumeric_whole(f) == f.whole

SampleNumeric(f) == f.head

InitDiscover ==
  /\ d_pc = "first"
  /\ d_files \in DiscFileLists
  /\ d_order = [i \in 1..Len(d_files) |-> i]
  /\ d_i = 1 /\ d_numeric_cols = {} /\ d_first = <<>> /\ d_second = <<>>
  /\ RunIdle /\ StatsIdle /\ XformIdle /\ DlIdle /\ ColIdle

\* Lines 320-329: one file; a read that raises adds nothing.
DiscoverFile ==
  /\ d_pc \in {"first", "second"} /\ d_i <= Len(d_order)
  /\ LET f == d_files[d_order[d_i]]
     IN  d_numeric_cols' = IF f.readable
                           THEN d_numeric_cols \cup SampleNumeric(f)
                           ELSE d_numeric_cols
  /\ d_i' = d_i + 1
  /\ UNCHANGED <<d_pc, d_files, d_order, d_first, d_second>>
  /\ UNCHANGED <<runVars, statsVars, xformVars, dlVars, colVars>>

\* Line 331 at the end of the first pass; the second pass then starts over
\* the same files in some order.
DiscoverSorted ==
  /\ d_pc = "first" /\ d_i > Len(d_order)
  /\ d_first' = SortedNames(d_numeric_cols)
  /\ d_pc' = "second"
  /\ d_order' \in GlobOrders(Len(d_files))
  /\ d_i' = 1 /\ d_numeric_cols' = {}
  /\ UNCHANGED <<d_files, d_second>>
  /\ UNCHANGED <<runVars, statsVars, xformVars, dlVars, colVars>>

\* Line 331 at the end of the second pass.
DiscoverAgainSorted ==
  /\ d_pc = "second" /\ d_i > Len(d_order)
  /\ d_second' = SortedNames(d_numeric_cols)
  /\ d_pc' = "done"
  /\ UNCHANGED <<d_files, d_order, d_i, d_numeric_cols, d_first>>
  /\ UNCHANGED <<runVars, statsVars, xformVars, dlVars, colVars>>

NextDiscover == DiscoverFile \/ DiscoverSorted \/ DiscoverAgainSorted

SpecDiscover == InitDiscover /\ [][NextDiscover]_vars

\* ------------------------------------------------------------------- C11
\* s comes before t in the lexicographic order of strings: at the first
\* position where they differ s has the smaller code point, or s ends there.
LexBefore(s, t) ==
  \E k \in 1..Len(t) :
    /\ \A i \in 1..(k - 1) : i <= Len(s) /\ s[i] = t[i]
    /\ (k > Len(s) \/ s[k] < t[k])

\* The columns numeric in the first 1000 rows of some readable file.
ReadableNumeric ==
  UNION { d_files[i].head : i \in { j \in 1..Len(d_files) : d_files[j].readable } }

IsDiscovery(cols) ==
  /\ { cols[i] : i \in 1..Len(cols) } = ReadableNumeric
  /\ \A i, j \in 1..Len(cols) : i < j => LexBefore(cols[i], cols[j])

\* C11: the discovery pass returns exactly the columns that are numeric in
\* the first 1000 rows of at least one readable file, in strictly increasing
\* lexicographic order (so without repeats), and a second pass over the same
\* files in any order returns the same list.
C11_DiscoveryIsSortedUnion ==
  /\ d_pc \in {"second", "done"} => IsDiscovery(d_first)
  /\ d_pc = "done" => d_second = d_first

\* Both passes are done, the second read the files in another order, one file
\* was unreadable, one had a column that is numeric only in its first 1000
\* rows, and three columns were discovered.
C11_Witness ==
  /\ d_pc = "done" /\ Len(d_second) = 3
  /\ d_order # [i \in 1..Len(d_files) |-> i]
  /\ \E i \in 1..Len(d_files) : ~d_files[i].readable /\ d_files[i].head # {}
  /\ \E i \in 1..Len(d_files) :
       d_files[i].readable /\ d_files[i].whole # d_files[i].head

\* ============================================================== SpecSink
\* The transform loop, the intermediate flush and the final write of lines
\* 373-416 (the actions of Spec) on files whose row counts straddle the flush
\* threshold in several ways.  The threshold is the literal 500000 of line
\* 399; RowUnit is a tenth of it, so that "a threshold of 10 rows and 25
\* rows in total" is the run with 25 * RowUnit transformed rows.
RowUnit == FLUSH_ROWS \div 10

\* Row counts of the files and values of chunk_rows: a file of 25 units read
\* in chunks of 5, 11 or 25 units, or files of 11 and 14 units.
SinkRows == { 11 * RowUnit, 14 * RowUnit, 25 * RowUnit }

SinkChunkRows == { 5 * RowUnit, 11 * RowUnit, 25 * RowUnit }

SinkFileLists ==
  UNION { [1..n -> { [cols |-> {"a"}, numeric |-> {"a"}, nrows |-> r] :
                       r \in SinkRows }]
          : n \in 1..MaxFiles }

\* process_cohort_dir at line 373, after the two first passes found the one
\* numeric column of the files.
InitSink ==
  /\ pc = "transform" /\ cohort = MaxCohorts /\ called = {MaxCohorts}
  /\ result = "none"
  /\ csv_files \in SinkFileLists /\ chunk_rows \in SinkChunkRows
  /\ fi = 1 /\ bi = 1 /\ numeric_cols = <<"a">>
  /\ attempted = [discover |-> DOMAIN csv_files, stats |-> DOMAIN csv_files,
                  transform |-> {}]
  /\ transformed = {} /\ failed = {} /\ processed_chunks = <<>>
  /\ written = NoArtifacts /\ now = 0 /\ writeFailed = FALSE
  /\ StatsIdle /\ XformIdle /\ DiscIdle /\ DlIdle /\ ColIdle

NextSink == TransformBatch \/ Flush \/ TransformEnd \/ Final

SpecSink == InitSink /\ [][NextSink]_vars

\* ------------------------------------------------------------------- C12
\* The run has returned and transformed 25 units of rows.
Ran25 == ReturnedPath /\ TransformedRows = 25 * RowUnit

PartArtifacts == { p \in DOMAIN written : p # out_path }

C13_BufferBounded ==
  [][ /\ (pc = "transform" /\ transformed' # transformed)
         => (pc' = "flush" <=> BufferedRows(processed_chunks') > FLUSH_ROWS)
      /\ pc = "flush"
         => /\ processed_chunks' = <<>>
            /\ \E p \in DOMAIN written' : written'[p] = processed_chunks
      /\ pc' = "transform" => BufferedRows(processed_chunks') <= FLUSH_ROWS
    ]_vars

\* ------------------------------------------------------------------- C14
\* C14: every intermediate flush writes under a name no earlier flush of the
\* run has used, and never under the name of the final artifact.
C14_FlushNamesDistinct ==
  [][ (pc = "flush" /\ written' # written)
      => \E p \in DOMAIN written' \ DOMAIN written : p # out_path ]_vars

\* ------------------------------------------------------------------- C15
\* C15: in every emitted row the value of column c is the robust-scaled
\* value (v - center) / spread of the value v read from the file, a missing
\* v being taken as the center (so emitted as 0); no emitted value of c is
\* missing.
C15_EmittedIsScaled ==
  x_pc = "done" =>
    \A i \in DOMAIN x_out :
      LET v8 == IF x_chunk[i] = NA THEN x_med ELSE 8 * x_chunk[i]
      IN  /\ x_out[i].c # NA
          /\ x_out[i].c * x_iqr = v8 - x_med

\* ------------------------------------------------------------------- C16
\* C16: for column c a file adds at most one (median, q1, q3) triple to the
\* accumulators, and it adds one exactly when its first sampled chunk could
\* be read and holds a value of c, whatever the other columns of the file
\* are.
C16_OneTriplePerValue ==
  [][ st_fi' = st_fi + 1 =>
        LET adds == IF st_ok' /\ \E i \in DOMAIN st_chunk' : st_chunk'[i] # NA
                    THEN 1 ELSE 0
        IN  /\ Len(medians_accum') = Len(medians_accum) + adds
            /\ Len(q1_accum') = Len(q1_accum) + adds
            /\ Len(q3_accum') = Len(q3_accum) + adds ]_vars

\* ------------------------------------------------------------------- C20
\* C20: a file that has some but not all of the discovered columns is still
\* transformed: when the transform loop is at a batch of such a file, the
\* batch can be transformed and appended to the buffer (it is, when its read
\* does not raise).
C20_LackingFileTransformed ==
  (/\ pc = "transform" /\ fi <= Len(csv_files)
   /\ ~(ColSet(numeric_cols) \subseteq csv_files[fi].cols)
   /\ ColSet(numeric_cols) \cap csv_files[fi].numeric # {})
  => ENABLED (TransformBatch /\ <<fi, bi>> \in transformed')

\* ========================================================== SpecDownload
\* safe_download of src/test/download_gdc.py, lines 44-112, against a server
\* holding a file of remote_bytes bytes.  Sizes are counted in blocks.

\* Size of the remote file and of the file found on disk, at most.
MaxBytes == 3
\* Value of max_retries, at most.
MaxRetries == 2

\* Line 50: while retries < max_retries.
MayAttempt_once_more(r, m) == r <= m

MayAttempt(r, m) == r < m

\* Lines 57-58: requests.head raises, or answers; total_size is the
\* content-length header of the answer, whatever its status: the length of
\* the file, 0 when the header is absent, the length of the error body when
\* the server answers with an error status.
HeadAnswers(remote) ==
  { [kind |-> "raised", total_size |-> 0],
    [kind |-> "length", total_size |-> remote],
    [kind |-> "nolength", total_size |-> 0] }
  \cup { [kind |-> "error", total_size |-> n] : n \in 1..MaxBytes }

\* Line 61.
AlreadyComplete(downloaded_bytes, total_size) ==
  downloaded_bytes >= total_size /\ total_size > 0

\* Lines 66-74: requests.get raises, or the server answers: with an error
\* status (raise_for_status raises HTTPError), with 416 when it honours the
\* Range header and the offset is not inside the file, with the rest of the
\* file from the offset when it honours the header, with the whole file when
\* no Range was sent or the server ignores it.
GetAnswers(downloaded_bytes, remote, honours) ==
  { [kind |-> "raised", body |-> 0], [kind |-> "http_error", body |-> 0] }
  \cup IF downloaded_bytes > 0 /\ honours
       THEN IF downloaded_bytes >= remote
            THEN { [kind |-> "416", body |-> 0] }
            ELSE { [kind |-> "body", body |-> remote - downloaded_bytes] }
       ELSE { [kind |-> "body", body |-> remote] }

\* Lines 77-78 and 87-89: mode "ab" appends to the bytes on disk, mode "wb"
\* starts the file anew.
FileAfter(downloaded_bytes, written_bytes) ==
  IF downloaded_bytes > 0 THEN downloaded_bytes + written_bytes ELSE written_bytes

\* safe_download is called: save_path may exist from an earlier call.
InitDownload ==
  /\ dl_pc = "loop" /\ retries = 0
  /\ max_retries \in 0..MaxRetries
  /\ remote_bytes \in 0..MaxBytes
  /\ start_bytes \in 0..MaxBytes /\ disk_bytes = start_bytes
  /\ honours_range \in BOOLEAN
  /\ attempts = 0 /\ last = NoAttempt /\ returned = "none"
  /\ RunIdle /\ StatsIdle /\ XformIdle /\ DiscIdle /\ ColIdle

DlReturn(value) == dl_pc' = "returned" /\ returned' = value /\ UNCHANGED retries

\* The except clauses of lines 95-109.
DlRetry == retries' = retries + 1 /\ UNCHANGED <<dl_pc, returned>>

\* Lines 51-109: one iteration of the while loop.
Attempt ==
  /\ dl_pc = "loop" /\ MayAttempt(retries, max_retries)
  /\ attempts' = attempts + 1
  /\ LET downloaded_bytes == disk_bytes
     IN \E head \in HeadAnswers(remote_bytes) :
          IF head.kind = "raised"
          THEN /\ DlRetry /\ UNCHANGED disk_bytes
               /\ last' = [NoAttempt EXCEPT !.head = head.kind]
          ELSE IF AlreadyComplete(downloaded_bytes, head.total_size)
          THEN /\ DlReturn("True") /\ UNCHANGED disk_bytes
               /\ last' = [NoAttempt EXCEPT !.head = head.kind,
                                            !.total_size = head.total_size]
          ELSE \E get \in GetAnswers(downloaded_bytes, remote_bytes, honours_range) :
                 \E written_bytes \in 0..get.body :
                   /\ disk_bytes' = IF get.kind = "body"
                                    THEN FileAfter(downloaded_bytes, written_bytes)
                                    ELSE disk_bytes
                   /\ last' = [head |-> head.kind, total_size |-> head.total_size,
                               get |-> IF get.kind # "body" THEN get.kind
                                       ELSE IF written_bytes < get.body
                                       THEN "interrupted" ELSE "complete",
                               from |-> downloaded_bytes, wrote |-> written_bytes]
                   /\ IF get.kind = "416" \/ (get.kind = "body" /\ written_bytes = get.body)
                      THEN DlReturn("True")
                      ELSE DlRetry
  /\ UNCHANGED <<max_retries, start_bytes, remote_bytes, honours_range>>
  /\ UNCHANGED <<runVars, statsVars, xformVars, discVars, colVars>>

\* Lines 111-112: the loop is left with retries = max_retries.
GiveUp ==
  /\ dl_pc = "loop" /\ ~MayAttempt(retries, max_retries)
  /\ DlReturn("False")
  /\ UNCHANGED <<max_retries, disk_bytes, start_bytes, remote_bytes,
                 honours_range, attempts, last>>
  /\ UNCHANGED <<runVars, statsVars, xformVars, discVars, colVars>>

NextDownload == Attempt \/ GiveUp

SpecDownload == InitDownload /\ [][NextDownload]_vars

\* ------------------------------------------------------------------- C17
\* The last iteration ended in one of the errors the loop retries on.
LastFailed ==
  last.head = "raised" \/ last.get \in {"raised", "http_error", "interrupted"}

\* C17: safe_download makes at most max_retries attempts; every iteration
\* that does not return True adds one to retries; False is returned only
\* after exactly max_retries attempts that all failed; and True is returned
\* only by an attempt that did not fail.
C17_BoundedRetries ==
  /\ attempts <= max_retries
  /\ returned = "none" => attempts = retries
  /\ returned = "False" => attempts = max_retries /\ retries = max_retries
  /\ returned = "True" => attempts = retries + 1 /\ ~LastFailed
  /\ (returned # "True" /\ attempts > 0) => LastFailed

\* False is returned after two attempts, the first failed on its HEAD
\* request and the second was interrupted while writing.
C17_Witness ==
  /\ returned = "False" /\ max_retries = 2 /\ attempts = 2
  /\ last.get = "interrupted" /\ disk_bytes > start_bytes

\* ------------------------------------------------------------------- C18
\* C18: an iteration that finds the file on disk at least as long as the
\* positive content length, or that is answered 416, returns True and writes
\* nothing; and a complete file on disk (as after a successful download) is
\* never changed by safe_download.
C18_CompleteIsUntouched ==
  [][ /\ (/\ attempts' = attempts + 1
          /\ \/ (disk_bytes >= last'.total_size /\ last'.total_size > 0)
             \/ last'.get = "416")
         => (returned' = "True" /\ last'.wrote = 0 /\ disk_bytes' = disk_bytes)
      /\ (disk_bytes = remote_bytes /\ remote_bytes > 0)
         => disk_bytes' = disk_bytes ]_vars

\* ------------------------------------------------------------------- C19
\* C19: an attempt that finds k bytes on disk asks the server for the bytes
\* from offset k on and appends what it receives; and with a server that
\* honours Range requests, called on a file that is absent or a prefix of
\* the remote file, safe_download returns True only with the file on disk as
\* long as the remote file.
C19_ResumeCompletes ==
  [][ attempts' = attempts + 1 =>
        /\ last'.get # "none"
           => (last'.from = disk_bytes /\ disk_bytes' = disk_bytes + last'.wrote)
        /\ (returned' = "True" /\ honours_range /\ start_bytes <= remote_bytes)
           => disk_bytes' = remote_bytes ]_vars

\* ------------------------------------------------------------------- C21
\* C21: whenever process_cohort_dir has returned its path, the final
\* artifact of that path was written by this call; in particular not when
\* no batch was transformed or every buffered batch went to an intermediate
\* flush.
C21_ReturnedPathWasWritten ==
  ReturnedPath => out_path \in DOMAIN written

\* =========================================================== SpecColumns
\* The column list of one transformed batch, lines 388-397.  Column names
\* are sequences of code points, as in SpecDiscover.

\* Columns of the file, at most.
MaxColumns == 2

\* "x", "id", "ID", "di", "x_z", "sample_id".
ColumnNames ==
  { <<120>>, <<105, 100>>, <<73, 68>>, <<100, 105>>, <<120, 95, 122>>,
    <<115, 97, 109, 112, 108, 101, 95, 105, 100>> }

\* The headers a batch can have: pandas keeps the names of a header distinct.
Headers ==
  { h \in UNION { [1..n -> ColumnNames] : n \in 1..MaxColumns } :
      \A i, j \in DOMAIN h : h[i] = h[j] => i = j }

\* str.lower on the code points of the ASCII letters.
Lower(s) == [i \in DOMAIN s |-> IF s[i] \in 65..90 THEN s[i] + 32 ELSE s[i]]

\* "id" in s
ContainsId(s) ==
  \E k \in 1..(Len(s) - 1) : s[k] = 105 /\ s[k + 1] = 100

\* ("patient_id", "sample_id") of line 394.
KnownIds ==
  { <<112, 97, 116, 105, 101, 110, 116, 95, 105, 100>>,
    <<115, 97, 109, 112, 108, 101, 95, 105, 100>> }

\* The test of line 394.
IsIdCol(c) == ContainsId(Lower(c)) \/ Lower(c) \in KnownIds

\* f"{c}_z" and f"{c}_sig".
Suffix_z(c) == c \o <<95, 122>>

Suffix_sig(c) == c \o <<95, 115, 105, 103>>

\* chunk[name] = ...: a new column goes to the end, an existing one is
\* replaced in place.
SetColumn(columns, name) ==
  IF \E i \in DOMAIN columns : columns[i] = name THEN columns
  ELSE Append(columns, name)

\* Lines 388-391: the columns of chunk after the loop over numeric_cols.
RECURSIVE WithSuffixColumns(_, _)
WithSuffixColumns(columns, cols) ==
  IF cols = <<>> THEN columns
  ELSE WithSuffixColumns(
         SetColumn(SetColumn(columns, Suffix_z(Head(cols))), Suffix_sig(Head(cols))),
         Tail(cols))

\* Line 394: [c for c in chunk.columns if ...].
RECURSIVE IdCols(_)
IdCols(columns) ==
  IF columns = <<>> THEN <<>>
  ELSE (IF IsIdCol(Head(columns)) THEN <<Head(columns)>> ELSE <<>>)
       \o IdCols(Tail(columns))

\* Line 396: [c for c in keep_cols if c in chunk.columns].
RECURSIVE PresentCols(_, _)
PresentCols(keep_cols, columns) ==
  IF keep_cols = <<>> THEN <<>>
  ELSE (IF \E i \in DOMAIN columns : columns[i] = Head(keep_cols)
        THEN <<Head(keep_cols)>> ELSE <<>>)
       \o PresentCols(Tail(keep_cols), columns)

\* [col for c in numeric_cols for col in (c, f"{c}_z", f"{c}_sig")]
RECURSIVE NumericTriples(_)
NumericTriples(cols) ==
  IF cols = <<>> THEN <<>>
  ELSE <<Head(cols), Suffix_z(Head(cols)), Suffix_sig(Head(cols))>>
       \o NumericTriples(Tail(cols))

\* Lines 394-396: id_cols is taken from chunk.columns after the suffix
\* columns were added.
KeepCols(columns, cols) ==
  LET chunk_columns == WithSuffixColumns(columns, cols)
      id_cols == IdCols(chunk_columns)
  IN  PresentCols(id_cols \o NumericTriples(cols), chunk_columns)

\* A batch is read whose columns include every column of numeric_cols (line
\* 378 raises otherwise); numeric_cols is sorted and not empty.
InitColumns ==
  /\ k_pc = "batch"
  /\ k_columns \in Headers
  /\ \E S \in SUBSET { k_columns[i] : i \in DOMAIN k_columns } :
       S # {} /\ k_numeric_cols = SortedNames(S)
  /\ k_keep_cols = <<>>
  /\ RunIdle /\ StatsIdle /\ XformIdle /\ DiscIdle /\ DlIdle

\* Lines 388-397.
SelectColumns ==
  /\ k_pc = "batch"
  /\ k_keep_cols' = KeepCols(k_columns, k_numeric_cols)
  /\ k_pc' = "done"
  /\ UNCHANGED <<k_columns, k_numeric_cols>>
  /\ UNCHANGED <<runVars, statsVars, xformVars, discVars, dlVars>>

NextColumns == SelectColumns

SpecColumns == InitColumns /\ [][NextColumns]_vars

\* ------------------------------------------------------------------- C22
\* C22: the column list of a transformed batch, the identifier columns
\* followed by c, c_z, c_sig for every numeric column c, holds no name
\* twice, whatever the names of the columns are.
C22_NoColumnTwice ==
  k_pc = "done" =>
    \A i, j \in DOMAIN k_keep_cols : k_keep_cols[i] = k_keep_cols[j] => i = j

====
